---- MODULE Spec2Model ----
(***************************************************************************)
(* Model of the pulse-ecg-monitor core (ecg_core.py) and of the threads of *)
(* its Flask front end (app.py).                                           *)
(*                                                                         *)
(* Units.  Timestamps and RR intervals are integers in milliseconds        *)
(* (0.25 s is 250, asystole_sec = 3.5 is 3500).  QT intervals and QRS      *)
(* widths are integers in units of 1e-5 s (rr * 0.45 is rr_ms * 45 and     *)
(* 0.08 + d / 100000 is 8000 + d), so every comparison of the source is    *)
(* an exact integer comparison here.                                       *)
(*                                                                         *)
(* Floating point.  Timestamps are doubles, so t - last_peak_time is the   *)
(* exact difference of the two clock readings or a neighbouring double,    *)
(* and so is now - last_signal_time.  That decides the RR gate (0.55 - 0.3 *)
(* > 0.25 is true in Python), int(60 / rr) (2.4 - 1.8 is                   *)
(* 0.6000000000000001 and gives 99, not 100) and the flatline test (2.7 -  *)
(* 1.7 > 1.0 is true).  One call subtracts distinct operands at most once  *)
(* (a beat has now = last_signal_time by then), and the model draws the    *)
(* rounding of that subtraction as an input err of the call, at its own    *)
(* resolution of 1 ms: a - b + err.  The clock readings fed to the model   *)
(* lie on a grid of 50 ms, so a rounded difference never reaches another   *)
(* clock reading.  The sums and means of lines 127-141 are exact here; a   *)
(* mean or variance exactly equal to its threshold is decided by the       *)
(* rounding of the sum in Python.                                          *)
(***************************************************************************)
EXTENDS Integers, Sequences, FiniteSets, TLC

VARIABLES
    config,      \* the ECGConfig the session was built from
    state,       \* the ECGState (a record of its fields)
    constructed, \* whether ECGState(config) returned (no exception)
    clock,       \* time.time(), in ms
    fed,         \* history: the <<value, t>> pairs fed since construction / reset
    epoch,       \* history: time of construction or of the last reset
    last_op,     \* history: the last completed operation and its arguments
    n_calls,     \* history: add_sample calls so far
    n_resets,    \* history: reset calls so far
    RESET_LOCK,  \* app.py: holder of the lock, or Free
    pc,          \* app.py: position of each thread
    locals,      \* app.py: local variables of each thread
    committed    \* history: state after the completed operations, run one by one

vars == <<config, state, constructed, clock, fed, epoch, last_op, n_calls,
          n_resets, RESET_LOCK, pc, locals, committed>>

(***************************************************************************)
(* Bounds of the model.                                                    *)
(***************************************************************************)
MaxSamples == 3
MaxResets == 2
\* Samples of the long session: enough to wrap a buffer of 1001 entries.
MaxStream == 1003

\* Beats of a rhythm before the inputs are free, and beats in all.
WarmUp == 7
MaxBeats == 10

\* Samples and resets of the threaded session.
MaxLoops == 2
MaxPosts == 1

(***************************************************************************)
(* Helpers.                                                                *)
(***************************************************************************)
Max(a, b) == IF a >= b THEN a ELSE b

Min(a, b) == IF a <= b THEN a ELSE b

Abs(a) == IF a >= 0 THEN a ELSE -a

Contains(q, x) == \E i \in 1..Len(q) : q[i] = x

Remove(q, x) == SelectSeq(q, LAMBDA y : y # x)

RECURSIVE Sum(_)
Sum(q) == IF q = <<>> THEN 0 ELSE Head(q) + Sum(Tail(q))

RECURSIVE SumSq(_)
SumSq(q) == IF q = <<>> THEN 0 ELSE Head(q) * Head(q) + SumSq(Tail(q))

\* Optional[float]: None is the empty tuple, a value t is <<t>>.
None == <<>>

Some(t) == <<t>>

\* Python truthiness of an Optional[float]: None and 0.0 are both false.
Truthy(opt) == opt # None /\ opt[1] # 0

\* ",".join(names)
RECURSIVE Join(_)
Join(names) ==
    IF names = <<>> THEN ""
    ELSE IF Len(names) = 1 THEN names[1]
    ELSE names[1] \o "," \o Join(Tail(names))

(***************************************************************************)
(* ecg_core.py                                                             *)
(***************************************************************************)
CARDIAC_EVENTS ==
    { "Bradycardia",
      "Tachycardia",
      "Ventricular Tachycardia",
      "Asystole / Flatline",
      "Irregular Rhythm",
      "Sinus Node Dysfunction",
      "First-Degree AV Block (possible)",
      "Bundle Branch Block (possible)",
      "Long QT (possible)",
      "Short QT (possible)",
      "Early Repolarization / ST Elevation (possible)",
      "Myocarditis (possible)" }

\* The names detect_events passes to set_event.
EventNames == CARDIAC_EVENTS

ECGConfig(sr, rt, br, ta, vt, asy, bs, bm, rm, qm, tm) ==
    [ sample_rate |-> sr, r_threshold |-> rt, brady_bpm |-> br,
      tachy_bpm |-> ta, vtach_bpm |-> vt, asystole_sec |-> asy,
      buffer_sec |-> bs, bpm_maxlen |-> bm, rr_maxlen |-> rm,
      qrs_maxlen |-> qm, qt_maxlen |-> tm ]

\* ECGConfig() with no environment variable set.
DefaultConfig == ECGConfig(250, 15000, 50, 100, 150, 3500, 120, 1200, 60, 30, 30)

ecg_maxlen(cfg) == Max(1000, cfg.sample_rate * cfg.buffer_sec)

\* deque(maxlen=m) raises ValueError for a negative m.
DequeOk(m) == m >= 0

\* ECGState.__post_init__ returns: every deque could be built.
PostInitOk(cfg) ==
    /\ DequeOk(ecg_maxlen(cfg))
    /\ DequeOk(cfg.bpm_maxlen)
    /\ DequeOk(cfg.rr_maxlen)
    /\ DequeOk(cfg.qrs_maxlen)
    /\ DequeOk(cfg.qt_maxlen)

\* The capacities the deques are built with.
PostInitMaxlen(cfg) ==
    [ ecg_data |-> ecg_maxlen(cfg),
      timestamps |-> ecg_maxlen(cfg),
      bpm_history |-> cfg.bpm_maxlen,
      bpm_timestamps |-> cfg.bpm_maxlen,
      rr_intervals |-> cfg.rr_maxlen,
      qrs_widths |-> cfg.qrs_maxlen,
      qt_intervals |-> cfg.qt_maxlen,
      event_timeline |-> ecg_maxlen(cfg) ]

\* ECGState(cfg) constructed at time now.
NewState(cfg, now) ==
    [ maxlen |-> PostInitMaxlen(cfg),
      ecg_data |-> <<>>,
      timestamps |-> <<>>,
      bpm_history |-> <<>>,
      bpm_timestamps |-> <<>>,
      rr_intervals |-> <<>>,
      qrs_widths |-> <<>>,
      qt_intervals |-> <<>>,
      event_state |-> <<>>,
      event_counts |-> [e \in EventNames |-> 0],
      event_timeline |-> <<>>,
      current_bpm |-> 0,
      last_peak_time |-> None,
      last_signal_time |-> now ]

\* Mutant: a full deque refuses the new entry instead of dropping the oldest.
DequeAppend_DropsNewest(q, m, x) ==
    IF Len(q) >= m THEN q ELSE Append(q, x)

\* deque.append on a deque of capacity m: the oldest entry leaves first.
DequeAppend(q, m, x) ==
    IF m = 0 THEN q
    ELSE IF Len(q) >= m THEN Append(Tail(q), x)
    ELSE Append(q, x)

\* Statement i of reset (line 68 + i).
ResetLine(s, i, now) ==
    CASE i = 1 -> [ s EXCEPT !.ecg_data = <<>> ]
      [] i = 2 -> [ s EXCEPT !.timestamps = <<>> ]
      [] i = 3 -> [ s EXCEPT !.bpm_history = <<>> ]
      [] i = 4 -> [ s EXCEPT !.bpm_timestamps = <<>> ]
      [] i = 5 -> [ s EXCEPT !.rr_intervals = <<>> ]
      [] i = 6 -> [ s EXCEPT !.qrs_widths = <<>> ]
      [] i = 7 -> [ s EXCEPT !.qt_intervals = <<>> ]
      [] i = 8 -> [ s EXCEPT !.event_state = <<>> ]
      [] i = 9 -> [ s EXCEPT !.event_counts = [e \in EventNames |-> 0] ]
      [] i = 10 -> [ s EXCEPT !.event_timeline = <<>> ]
      [] i = 11 -> [ s EXCEPT !.current_bpm = 0 ]
      [] i = 12 -> [ s EXCEPT !.last_peak_time = None ]
      [] i = 13 -> [ s EXCEPT !.last_signal_time = now ]

RECURSIVE RunLines(_, _, _)
RunLines(s, lines, now) ==
    IF lines = <<>> THEN s
    ELSE RunLines(ResetLine(s, Head(lines), now), Tail(lines), now)

\* Mutant: reset forgets last_peak_time (line 80 missing).
reset_KeepsLastPeak(s, now) ==
    RunLines(s, <<1, 2, 3, 4, 5, 6, 7, 8, 9, 10, 11, 13>>, now)

\* Mutant: reset forgets event_counts (line 77 missing).
reset_KeepsEventCounts(s, now) ==
    RunLines(s, <<1, 2, 3, 4, 5, 6, 7, 8, 10, 11, 12, 13>>, now)

reset(s, now) ==
    RunLines(s, <<1, 2, 3, 4, 5, 6, 7, 8, 9, 10, 11, 12, 13>>, now)

\* event_state is a dict: its keys in insertion order.  event_counts is a
\* defaultdict(int): a key is present exactly when its count is not 0.
set_event(s, name, condition) ==
    IF condition
    THEN [ s EXCEPT !.event_state = IF Contains(@, name) THEN @ ELSE Append(@, name),
                    !.event_counts[name] = @ + 1 ]
    ELSE [ s EXCEPT !.event_state = Remove(@, name) ]

active_cardiac_flags(s) == SelectSeq(s.event_state, LAMBDA e : e \in CARDIAC_EVENTS)

\* rr_intervals less its first entry: the variance is the same, the numbers
\* are smaller.
Centred(q) == [ i \in 1..Len(q) |-> q[i] - q[1] ]

\* Mutant: the statistics wait for more than 7 intervals.
RRStats_NeedsEight(s) ==
    LET n == Len(s.rr_intervals)
        S == Sum(s.rr_intervals)
        V == n * SumSq(Centred(s.rr_intervals))
               - Sum(Centred(s.rr_intervals)) * Sum(Centred(s.rr_intervals))
    IN  IF n > 7
        THEN LET a == set_event(s, "Irregular Rhythm", V > 20000 * n * n)
                 b == set_event(a, "Sinus Node Dysfunction",
                                V > 30000 * n * n /\ S > 1200 * n)
             IN  set_event(b, "First-Degree AV Block (possible)",
                           S > 1000 * n /\ V < 5000 * n * n)
        ELSE s

\* Lines 126-132: the statistics over rr_intervals, evaluated only with more
\* than 6 intervals.  With n = len, S = sum and Q = sum of squares (ms),
\* mean = S / n and variance = (n*Q - S*S) / (n*n) ms^2.
RRStats(s) ==
    LET n == Len(s.rr_intervals)
        S == Sum(s.rr_intervals)
        V == n * SumSq(Centred(s.rr_intervals))
               - Sum(Centred(s.rr_intervals)) * Sum(Centred(s.rr_intervals))
    IN  IF n > 6
        THEN LET a == set_event(s, "Irregular Rhythm", V > 20000 * n * n)
                 b == set_event(a, "Sinus Node Dysfunction",
                                V > 30000 * n * n /\ S > 1200 * n)
             IN  set_event(b, "First-Degree AV Block (possible)",
                           S > 1000 * n /\ V < 5000 * n * n)
        ELSE s

\* Lines 134-138.
QRSStats(s) ==
    LET n == Len(s.qrs_widths)
    IN  IF n > 5
        THEN set_event(s, "Bundle Branch Block (possible)",
                       Sum(s.qrs_widths) > 14000 * n)
        ELSE s

\* Mutant: Short QT, once set, is not cleared when the mean rises.
QTStats_LatchedShortQT(s) ==
    LET n == Len(s.qt_intervals)
        T == Sum(s.qt_intervals)
    IN  IF n > 5
        THEN LET a == set_event(s, "Long QT (possible)", T > 48000 * n)
             IN  IF T < 32000 * n
                 THEN set_event(a, "Short QT (possible)", TRUE)
                 ELSE a
        ELSE s

\* Lines 140-143.
QTStats(s) ==
    LET n == Len(s.qt_intervals)
        T == Sum(s.qt_intervals)
    IN  IF n > 5
        THEN LET a == set_event(s, "Long QT (possible)", T > 48000 * n)
             IN  set_event(a, "Short QT (possible)", T < 32000 * n)
        ELSE s

\* Mutant: no rate limit.
EarlyRepol_AnyRate(s, cfg, value) ==
    set_event(s, "Early Repolarization / ST Elevation (possible)",
              4 * value > 5 * cfg.r_threshold)

\* Mutant: the rate limit is tachy_bpm instead of the constant 100.
EarlyRepol_UsesTachy(s, cfg, value) ==
    set_event(s, "Early Repolarization / ST Elevation (possible)",
              4 * value > 5 * cfg.r_threshold /\ s.current_bpm < cfg.tachy_bpm)

\* Lines 145-148: value > r_threshold * 1.25 and current_bpm < 100.
EarlyRepol(s, cfg, value) ==
    set_event(s, "Early Repolarization / ST Elevation (possible)",
              4 * value > 5 * cfg.r_threshold /\ s.current_bpm < 100)

\* Lines 150-158.
Myocarditis(s) ==
    LET score == (IF Contains(s.event_state, "Tachycardia") THEN 1 ELSE 0)
               + (IF Contains(s.event_state, "Irregular Rhythm") THEN 1 ELSE 0)
               + (IF Contains(s.event_state,
                              "Early Repolarization / ST Elevation (possible)")
                  THEN 1 ELSE 0)
    IN  set_event(s, "Myocarditis (possible)", score >= 2)

\* Lines 99 and 124: a - b in double arithmetic; x - x is exactly 0.
FloatSub(a, b, err) == IF a = b THEN 0 ELSE a - b + err

\* Mutant: Tachycardia compares the wrong way round.
RateEvents_TachyBelow(s, cfg) ==
    LET a == set_event(s, "Bradycardia",
                       s.current_bpm # 0 /\ s.current_bpm < cfg.brady_bpm)
        b == set_event(a, "Tachycardia",
                       s.current_bpm # 0 /\ s.current_bpm < cfg.tachy_bpm)
    IN  set_event(b, "Ventricular Tachycardia",
                  s.current_bpm # 0 /\ s.current_bpm > cfg.vtach_bpm)

\* Mutant: Ventricular Tachycardia compares with tachy_bpm.
RateEvents_VtachUsesTachy(s, cfg) ==
    LET a == set_event(s, "Bradycardia",
                       s.current_bpm # 0 /\ s.current_bpm < cfg.brady_bpm)
        b == set_event(a, "Tachycardia",
                       s.current_bpm # 0 /\ s.current_bpm > cfg.tachy_bpm)
    IN  set_event(b, "Ventricular Tachycardia",
                  s.current_bpm # 0 /\ s.current_bpm > cfg.tachy_bpm)

\* Lines 117-122: "current_bpm and current_bpm < x" is false for current_bpm = 0.
RateEvents(s, cfg) ==
    LET a == set_event(s, "Bradycardia",
                       s.current_bpm # 0 /\ s.current_bpm < cfg.brady_bpm)
        b == set_event(a, "Tachycardia",
                       s.current_bpm # 0 /\ s.current_bpm > cfg.tachy_bpm)
    IN  set_event(b, "Ventricular Tachycardia",
                  s.current_bpm # 0 /\ s.current_bpm > cfg.vtach_bpm)

\* Line 124.
Asystole(s, cfg, now, err) ==
    set_event(s, "Asystole / Flatline",
              FloatSub(now, s.last_signal_time, err) > cfg.asystole_sec)

\* Mutant: the composite is computed from the flags of the previous call.
detect_events_MyocarditisFirst(s, cfg, value, now, err) ==
    EarlyRepol(QTStats(QRSStats(RRStats(
        Asystole(RateEvents(Myocarditis(s), cfg), cfg, now, err)))), cfg, value)

detect_events(s, cfg, value, now, err) ==
    Myocarditis(EarlyRepol(QTStats(QRSStats(RRStats(
        Asystole(RateEvents(s, cfg), cfg, now, err)))), cfg, value))

\* Line 94.
AppendData(s, value) ==
    [ s EXCEPT !.ecg_data = DequeAppend(@, s.maxlen.ecg_data, value) ]

\* Mutant: a timestamp equal to the previous one is not stored again.
AppendTimestamp_SkipsRepeat(s, t) ==
    IF s.timestamps # <<>> /\ s.timestamps[Len(s.timestamps)] = t
    THEN s
    ELSE [ s EXCEPT !.timestamps = DequeAppend(@, s.maxlen.timestamps, t) ]

\* Line 95.
AppendTimestamp(s, t) ==
    [ s EXCEPT !.timestamps = DequeAppend(@, s.maxlen.timestamps, t) ]


\* Mutant: the gate lets an interval of exactly 0.25 s through.
RecordInterval_GateInclusive(s, cfg, value, t, err) ==
    LET rr == FloatSub(t, s.last_peak_time[1], err)
        bpm == 60000 \div rr
    IN  IF rr >= 250
        THEN [ s EXCEPT
                 !.rr_intervals = DequeAppend(@, s.maxlen.rr_intervals, rr),
                 !.current_bpm = bpm,
                 !.bpm_history = DequeAppend(@, s.maxlen.bpm_history, bpm),
                 !.bpm_timestamps = DequeAppend(@, s.maxlen.bpm_timestamps, t),
                 !.qt_intervals = DequeAppend(@, s.maxlen.qt_intervals, rr * 45),
                 !.qrs_widths = DequeAppend(@, s.maxlen.qrs_widths,
                                            8000 + Abs(value - cfg.r_threshold)) ]
        ELSE s

\* Lines 99-108: the RR gate and the per-beat measurements.
RecordInterval(s, cfg, value, t, err) ==
    LET rr == FloatSub(t, s.last_peak_time[1], err)
        bpm == 60000 \div rr
    IN  IF rr > 250
        THEN [ s EXCEPT
                 !.rr_intervals = DequeAppend(@, s.maxlen.rr_intervals, rr),
                 !.current_bpm = bpm,
                 !.bpm_history = DequeAppend(@, s.maxlen.bpm_history, bpm),
                 !.bpm_timestamps = DequeAppend(@, s.maxlen.bpm_timestamps, t),
                 !.qt_intervals = DequeAppend(@, s.maxlen.qt_intervals, rr * 45),
                 !.qrs_widths = DequeAppend(@, s.maxlen.qrs_widths,
                                            8000 + Abs(value - cfg.r_threshold)) ]
        ELSE s

\* Mutant: the beat's time is recorded only when the RR gate passed.
DetectBeat_GatedPeakTime(s, cfg, value, t, err) ==
    IF value > cfg.r_threshold
    THEN IF Truthy(s.last_peak_time)
         THEN IF FloatSub(t, s.last_peak_time[1], err) > 250
              THEN [ RecordInterval(s, cfg, value, t, err)
                       EXCEPT !.last_peak_time = Some(t), !.last_signal_time = t ]
              ELSE s
         ELSE [ s EXCEPT !.last_peak_time = Some(t), !.last_signal_time = t ]
    ELSE s

\* Mutant: a beat does not refresh last_signal_time (line 111 missing).
DetectBeat_NoSignalTime(s, cfg, value, t, err) ==
    IF value > cfg.r_threshold
    THEN LET a == IF Truthy(s.last_peak_time)
                  THEN RecordInterval(s, cfg, value, t, err)
                  ELSE s
         IN  [ a EXCEPT !.last_peak_time = Some(t) ]
    ELSE s

\* Lines 97-111.
DetectBeat(s, cfg, value, t, err) ==
    IF value > cfg.r_threshold
    THEN LET a == IF Truthy(s.last_peak_time)
                  THEN RecordInterval(s, cfg, value, t, err)
                  ELSE s
         IN  [ a EXCEPT !.last_peak_time = Some(t), !.last_signal_time = t ]
    ELSE s

\* Line 114.
AppendTimeline(s) ==
    [ s EXCEPT !.event_timeline =
                 DequeAppend(@, s.maxlen.event_timeline, Join(active_cardiac_flags(s))) ]

add_sample(s, cfg, value, t, err) ==
    AppendTimeline(detect_events(
        DetectBeat(AppendTimestamp(AppendData(s, value), t), cfg, value, t, err),
        cfg, value, t, err))

(***************************************************************************)
(* The session driven through its interface, one whole call per step.      *)
(* As in ecg_loop, the timestamp of a sample is the clock reading of the   *)
(* call, so timestamps never decrease.                                     *)
(***************************************************************************)
\* Thresholds next to the rates the inputs produce (39/40 and 119/120 bpm),
\* and capacities small enough to wrap.
AltConfig == ECGConfig(1, 15000, 40, 110, 119, 1000, 3, 2, 2, 1, 1)

\* sample_rate = 0, asystole_sec = 0 and brady_bpm >= tachy_bpm.
InvalidConfig == ECGConfig(0, 15000, 100, 40, 110, 0, 120, 1200, 60, 30, 30)

\* ECG_RR_MAXLEN=-1: the one kind of Config the constructor rejects.
NegativeConfig == ECGConfig(250, 15000, 50, 100, 150, 3500, 120, 1200, -1, 30, 30)

Configs == { DefaultConfig, AltConfig, InvalidConfig, NegativeConfig }

\* Sample values: baseline, a beat of exactly 1.25 * r_threshold, a beat above it.
Values == { 10000, 18750, 20000 }

\* Time between calls (ms): none, the RR gate itself (0.25 s, which passes
\* only when the subtraction rounds up, and then gives 239 bpm), 120 bpm,
\* 40 bpm.
Deltas == { 0, 250, 500, 1500 }

\* Rounding of the subtraction a call makes: exact, or the next double up.
Roundings == { 0, 1 }

\* Time between the last call and a reset (ms).
ResetDeltas == { 500 }

Free == "free"

Threads == { "ecg_loop", "w1", "w2" }

NoOp == [ op |-> "init", value |-> 0, t |-> 0, err |-> 0, prev |-> "init" ]

\* A thread between requests; step 0 of a handler is its "with RESET_LOCK".
Idle == [ at |-> "idle", step |-> 0 ]

NoLocals == [ th \in Threads |-> [ seen |-> <<>>, copies |-> <<>> ] ]

\* config = ECGConfig(); state = ECGState(config)  (app.py lines 37-38)
InitSession(cfgs) ==
    /\ config \in cfgs
    /\ clock = 0
    /\ constructed = PostInitOk(config)
    /\ state = NewState(config, clock)
    /\ committed = state
    /\ fed = <<>>
    /\ epoch = clock
    /\ last_op = NoOp
    /\ n_calls = 0
    /\ n_resets = 0
    /\ RESET_LOCK = Free
    /\ pc = [ th \in Threads |-> Idle ]
    /\ locals = NoLocals

Init == InitSession(Configs)

\* state.add_sample(value, t) with t = time.time(), d ms after the last call.
\* A rounding is drawn only where the call subtracts distinct operands.
Subtracts(s, cfg, value, t) ==
    IF value > cfg.r_threshold
    THEN Truthy(s.last_peak_time) /\ s.last_peak_time[1] # t
    ELSE s.last_signal_time # t

AddSample(value, d, err) ==
    /\ (err # 0) => Subtracts(state, config, value, clock + d)
    /\ constructed
    /\ clock' = clock + d
    /\ state' = add_sample(state, config, value, clock', err)
    /\ committed' = state'
    /\ fed' = Append(fed, <<value, clock'>>)
    /\ last_op' = [ op |-> "add_sample", value |-> value, t |-> clock',
                    err |-> err, prev |-> last_op.op ]
    /\ n_calls' = n_calls + 1
    /\ UNCHANGED <<config, constructed, epoch, n_resets, RESET_LOCK, pc, locals>>

\* state.reset(), d ms after the last call.
Reset(d) ==
    /\ constructed
    /\ n_resets < MaxResets
    /\ clock' = clock + d
    /\ state' = reset(state, clock')
    /\ committed' = state'
    /\ fed' = <<>>
    /\ epoch' = clock'
    /\ last_op' = [ op |-> "reset", value |-> 0, t |-> clock', err |-> 0,
                    prev |-> last_op.op ]
    /\ n_resets' = n_resets + 1
    /\ UNCHANGED <<config, constructed, n_calls, RESET_LOCK, pc, locals>>

Next ==
    \/ /\ n_calls < MaxSamples
       /\ \E value \in Values, d \in Deltas, err \in Roundings :
             AddSample(value, d, err)
    \/ \E d \in ResetDeltas : Reset(d)

Spec == Init /\ [][Next]_vars

(***************************************************************************)
(* One long session: a fixed stream at a steady cadence, long enough for   *)
(* the raw buffers (at least 1000 entries) to wrap, and a reset once they  *)
(* have.  Sample k carries k in its value, so no two samples are alike.    *)
(***************************************************************************)
\* sample_rate * buffer_sec below the floor of 1000, and just above it.
FloorConfig == ECGConfig(250, 15000, 50, 100, 150, 3500, 2, 3, 8, 7, 6)

AboveFloorConfig == ECGConfig(7, 15000, 50, 100, 150, 3500, 143, 2, 8, 7, 6)

LongConfigs == { FloorConfig, AboveFloorConfig }

\* Every third sample is a beat.
StreamValue(k) == IF k % 3 = 0 THEN 20000 + k ELSE 10000 + k

StreamDelta(k) == IF k % 2 = 0 THEN 300 ELSE 350

InitLong == InitSession(LongConfigs)

StreamSample ==
    /\ n_calls < MaxStream
    /\ AddSample(StreamValue(n_calls + 1), StreamDelta(n_calls + 1), 0)

StreamReset ==
    /\ Len(state.ecg_data) = state.maxlen.ecg_data
    /\ Reset(0)

NextLong ==
    \/ StreamSample
    \/ StreamReset

SpecLong == InitLong /\ [][NextLong]_vars

(***************************************************************************)
(* A session fed beats only: WarmUp beats of one rhythm, the first at the  *)
(* session's start or 50 ms after it, then beats of any value and spacing  *)
(* up to MaxBeats.  A reset may follow the first beat; the stream then     *)
(* starts over.                                                            *)
(***************************************************************************)
\* The default thresholds with windows just long enough for the statistics
\* of lines 126-143 (more than 6 RR intervals, more than 5 QRS and QT values).
WindowConfig == ECGConfig(250, 15000, 50, 100, 150, 3500, 120, 3, 7, 6, 6)

RhythmConfigs == { DefaultConfig, WindowConfig }

RhythmNames == { "steady", "alternating", "slow", "pausing" }

\* Time (ms) from beat k - 1 to beat k of a rhythm, k >= 2.
Rhythm(name, k) ==
    CASE name = "steady" -> 600
      [] name = "alternating" -> IF k % 2 = 0 THEN 400 ELSE 800
      [] name = "slow" -> 1200
      [] name = "pausing" -> IF k % 2 = 0 THEN 800 ELSE 2000

\* Time from the start of the session, or from a reset, to the first beat.
StartDeltas == { 0, 50 }

\* Beats 1.44 * r_threshold and 1.07 * r_threshold high.
RhythmValues == { 16000, 22000 }

RhythmDeltas == { 400, 600, 800, 1200 }

\* h holds the first beats of the rhythm and d continues it.
FollowsRhythm(h, name, d) ==
    /\ \A k \in 2..Len(h) : h[k][2] - h[k - 1][2] = Rhythm(name, k)
    /\ d = Rhythm(name, Len(h) + 1)

InitRhythm == InitSession(RhythmConfigs)

FirstBeat(d) ==
    /\ fed = <<>>
    /\ AddSample(22000, d, 0)

WarmUpBeat(name) ==
    /\ Len(fed) >= 1
    /\ Len(fed) < WarmUp
    /\ FollowsRhythm(fed, name, Rhythm(name, Len(fed) + 1))
    /\ AddSample(22000, Rhythm(name, Len(fed) + 1), 0)

FreeBeat(value, d, err) ==
    /\ Len(fed) >= WarmUp
    /\ Len(fed) < MaxBeats
    /\ AddSample(value, d, err)

RhythmReset ==
    /\ n_resets = 0
    /\ Len(fed) = 1
    /\ \E d \in ResetDeltas : Reset(d)

NextRhythm ==
    \/ \E d \in StartDeltas : FirstBeat(d)
    \/ \E name \in RhythmNames : WarmUpBeat(name)
    \/ \E value \in RhythmValues, d \in RhythmDeltas, err \in Roundings :
          FreeBeat(value, d, err)
    \/ RhythmReset

SpecRhythm == InitRhythm /\ [][NextRhythm]_vars

(***************************************************************************)
(* app.py: the sampling thread and two request threads, one statement per  *)
(* step.  pc[th].at is the loop or handler the thread is in; step 0 is its *)
(* "with RESET_LOCK:", steps 1..NSteps are the statements of the block and *)
(* step NSteps + 1 is the end of the block, where the lock is released.    *)
(* committed is the session after the operations completed so far, each    *)
(* applied as a whole; locals[th].seen is committed when th took the lock. *)
(***************************************************************************)
Producer == "ecg_loop"

Workers == Threads \ { Producer }

Handlers == { "health", "data", "report", "reset" }

ConcConfigs == { DefaultConfig }

ConcValues == { 10000, 20000 }

\* time.sleep(1 / config.sample_rate), stretched to the cadence of the beats.
SleepDeltas == { 500 }

\* Statements inside the block guarded by RESET_LOCK.
NSteps(at) ==
    CASE at = Producer -> 6
      [] at = "health" -> 1
      [] at = "data" -> 4
      [] at = "report" -> 6
      [] at = "reset" -> 13

At(th, at, step) == pc[th] = [ at |-> at, step |-> step ]

Goto(th, at, step) == pc' = [ pc EXCEPT ![th] = [ at |-> at, step |-> step ] ]

InBlock(th) == pc[th].step >= 1

LastN(q, n) == IF Len(q) <= n THEN q ELSE SubSeq(q, Len(q) - n + 1, Len(q))

Copy(th, name, v) ==
    locals' = [ locals EXCEPT ![th].copies = (name :> v) @@ @ ]

\* Mutant: the lock is taken whether or not another thread holds it.
Acquire_NoWait(th) ==
    /\ RESET_LOCK' = th

\* Lock.acquire(): blocks while another thread holds the lock.
Acquire(th) ==
    /\ RESET_LOCK = Free
    /\ RESET_LOCK' = th

Release(th) == RESET_LOCK' = Free

InitConc == InitSession(ConcConfigs)

\* "with RESET_LOCK:" of ecg_loop or of a handler.
Enter(th) ==
    /\ pc[th].at \in Handlers \cup { Producer }
    /\ pc[th].step = 0
    /\ th = Producer => n_calls < MaxLoops
    /\ Acquire(th)
    /\ Goto(th, pc[th].at, 1)
    /\ locals' = [ locals EXCEPT ![th] = [ seen |-> committed, copies |-> <<>> ] ]
    /\ UNCHANGED <<config, state, constructed, clock, fed, epoch, last_op,
                   n_calls, n_resets, committed>>

\* End of the "with" block: ecg_loop goes on to its sleep, report to building
\* the archive from its copies, the other handlers return.
Exit(th) ==
    /\ pc[th].at \in Handlers \cup { Producer }
    /\ pc[th].step = NSteps(pc[th].at) + 1
    /\ Release(th)
    /\ CASE th = Producer -> Goto(th, "sleep", 0) /\ UNCHANGED locals
         [] pc[th].at = "report" -> Goto(th, "build", 0) /\ UNCHANGED locals
         [] OTHER -> Goto(th, "idle", 0)
                     /\ locals' = [ locals EXCEPT ![th] = NoLocals[th] ]
    /\ UNCHANGED <<config, state, constructed, clock, fed, epoch, last_op,
                   n_calls, n_resets, committed>>

\* report(), lines 165-244: the CSV files and the zip, from the copies alone.
Build(th) ==
    /\ At(th, "build", 0)
    /\ Goto(th, "idle", 0)
    /\ locals' = [ locals EXCEPT ![th] = NoLocals[th] ]
    /\ UNCHANGED <<config, state, constructed, clock, fed, epoch, last_op,
                   n_calls, n_resets, RESET_LOCK, committed>>

\* A request arrives on a worker thread.
Request(th, handler) ==
    /\ th \in Workers
    /\ At(th, "idle", 0)
    /\ handler = "reset" => n_resets < MaxPosts
    /\ Goto(th, handler, 0)
    /\ UNCHANGED <<config, state, constructed, clock, fed, epoch, last_op,
                   n_calls, n_resets, RESET_LOCK, locals, committed>>

\* Lines 247-248: threading.Thread(target=ecg_loop, daemon=True).start()
LoopStart ==
    /\ At(Producer, "idle", 0)
    /\ Goto(Producer, Producer, 0)
    /\ UNCHANGED <<config, state, constructed, clock, fed, epoch, last_op,
                   n_calls, n_resets, RESET_LOCK, locals, committed>>

\* Lines 72-75: t = time.time() and the sample value.
LoopRead(value, err) ==
    /\ At(Producer, Producer, 1)
    /\ (err # 0) => Subtracts(state, config, value, clock)
    /\ locals' = [ locals EXCEPT ![Producer].copies =
                     [ value |-> value, t |-> clock, err |-> err ] ]
    /\ Goto(Producer, Producer, 2)
    /\ UNCHANGED <<config, state, constructed, clock, fed, epoch, last_op,
                   n_calls, n_resets, RESET_LOCK, committed>>

\* Line 77, state.add_sample(val, t), statement by statement.
LoopAddSample ==
    LET th == Producer
        k == pc[th].step
        a == locals[th].copies
    IN  /\ pc[th].at = Producer
        /\ k \in 2..6
        /\ state' =
             CASE k = 2 -> AppendData(state, a.value)
               [] k = 3 -> AppendTimestamp(state, a.t)
               [] k = 4 -> DetectBeat(state, config, a.value, a.t, a.err)
               [] k = 5 -> detect_events(state, config, a.value, a.t, a.err)
               [] k = 6 -> AppendTimeline(state)
        /\ Goto(th, Producer, k + 1)
        /\ IF k = 6
           THEN /\ committed' = add_sample(committed, config, a.value, a.t, a.err)
                /\ fed' = Append(fed, <<a.value, a.t>>)
                /\ last_op' = [ op |-> "add_sample", value |-> a.value, t |-> a.t,
                                err |-> a.err, prev |-> last_op.op ]
                /\ n_calls' = n_calls + 1
           ELSE UNCHANGED <<committed, fed, last_op, n_calls>>
        /\ UNCHANGED <<config, constructed, clock, epoch, n_resets, RESET_LOCK,
                       locals>>

\* Line 79: time.sleep, outside the lock.
LoopSleep(d) ==
    /\ At(Producer, "sleep", 0)
    /\ clock' = clock + d
    /\ Goto(Producer, Producer, 0)
    /\ UNCHANGED <<config, state, constructed, fed, epoch, last_op, n_calls,
                   n_resets, RESET_LOCK, locals, committed>>

\* health(): reads state.current_bpm.
HealthRead(th) ==
    /\ At(th, "health", 1)
    /\ Copy(th, "bpm", state.current_bpm)
    /\ Goto(th, "health", 2)
    /\ UNCHANGED <<config, state, constructed, clock, fed, epoch, last_op,
                   n_calls, n_resets, RESET_LOCK, committed>>

\* What a handler's copy shows of a session s.
View(s, name) ==
    CASE name = "ecg_slice" -> LastN(s.ecg_data, 1000)
      [] name = "bpm" -> s.current_bpm
      [] name = "bpm_history[-300:]" -> LastN(s.bpm_history, 300)
      [] name = "events" -> s.event_state
      [] name = "ecg_data" -> s.ecg_data
      [] name = "timestamps" -> s.timestamps
      [] name = "bpm_history" -> s.bpm_history
      [] name = "bpm_timestamps" -> s.bpm_timestamps
      [] name = "event_timeline" -> s.event_timeline
      [] name = "event_counts" -> s.event_counts

DataReads == << "ecg_slice", "bpm", "bpm_history[-300:]", "events" >>

\* data(): the slice of ecg_data, then the three fields of the response.
DataRead(th) ==
    LET k == pc[th].step
    IN  /\ pc[th].at = "data"
        /\ k \in 1..4
        /\ Copy(th, DataReads[k], View(state, DataReads[k]))
        /\ Goto(th, "data", k + 1)
        /\ UNCHANGED <<config, state, constructed, clock, fed, epoch, last_op,
                       n_calls, n_resets, RESET_LOCK, committed>>

ReportReads == << "ecg_data", "timestamps", "bpm_history", "bpm_timestamps",
                 "event_timeline", "event_counts" >>

\* report(): the six copies of lines 158-163.
ReportRead(th) ==
    LET k == pc[th].step
    IN  /\ pc[th].at = "report"
        /\ k \in 1..6
        /\ Copy(th, ReportReads[k], View(state, ReportReads[k]))
        /\ Goto(th, "report", k + 1)
        /\ UNCHANGED <<config, state, constructed, clock, fed, epoch, last_op,
                       n_calls, n_resets, RESET_LOCK, committed>>

\* reset(): state.reset(), statement by statement; line 81 reads the clock.
ResetWrite(th) ==
    LET k == pc[th].step
    IN  /\ pc[th].at = "reset"
        /\ k \in 1..13
        /\ state' = ResetLine(state, k, clock)
        /\ Goto(th, "reset", k + 1)
        /\ IF k = 13
           THEN /\ committed' = reset(committed, clock)
                /\ fed' = <<>>
                /\ epoch' = clock
                /\ last_op' = [ op |-> "reset", value |-> 0, t |-> clock,
                                err |-> 0, prev |-> last_op.op ]
                /\ n_resets' = n_resets + 1
           ELSE UNCHANGED <<committed, fed, epoch, last_op, n_resets>>
        /\ UNCHANGED <<config, constructed, clock, n_calls, RESET_LOCK, locals>>

\* ecg_loop is about to read the clock and the sample: lines 72-76, where
\* chan.value is a read of the ADC.
Acquiring(th) == At(th, Producer, 1)

\* ecg_loop is in time.sleep (line 79).
Sleeping(th) == At(th, "sleep", 0)

NextConc ==
    \/ LoopStart
    \/ \E th \in Threads : Enter(th)
    \/ \E th \in Threads : Exit(th)
    \/ \E th \in Workers, handler \in Handlers : Request(th, handler)
    \/ \E value \in ConcValues, err \in Roundings : LoopRead(value, err)
    \/ LoopAddSample
    \/ \E d \in SleepDeltas : LoopSleep(d)
    \/ \E th \in Workers : HealthRead(th)
    \/ \E th \in Workers : DataRead(th)
    \/ \E th \in Workers : ReportRead(th)
    \/ \E th \in Workers : ResetWrite(th)
    \/ \E th \in Workers : Build(th)

SpecConc == InitConc /\ [][NextConc]_vars

(***************************************************************************)
(* Vocabulary of the properties.                                           *)
(***************************************************************************)
Active(s, name) == Contains(s.event_state, name)

IsAddSampleStep == n_calls' # n_calls

IsResetStep == n_resets' # n_resets

AfterAddSample == last_op.op = "add_sample"

IsBeat(value) == value > config.r_threshold

Beats(h) == Len(SelectSeq(h, LAMBDA x : IsBeat(x[1])))

\* Time of the most recent beat among the samples fed, else the session start.
RECURSIVE LastBeatTime(_, _)
LastBeatTime(h, start) ==
    IF h = <<>> THEN start
    ELSE IF IsBeat(h[Len(h)][1]) THEN h[Len(h)][2]
    ELSE LastBeatTime(SubSeq(h, 1, Len(h) - 1), start)

ValidConfig(cfg) ==
    /\ cfg.sample_rate > 0
    /\ cfg.asystole_sec > 0
    /\ cfg.brady_bpm < cfg.tachy_bpm
    /\ cfg.tachy_bpm < cfg.vtach_bpm

DefaultRates ==
    /\ config.brady_bpm = 50
    /\ config.tachy_bpm = 100
    /\ config.vtach_bpm = 150

BuffersEmpty(s) ==
    /\ s.ecg_data = <<>>
    /\ s.timestamps = <<>>
    /\ s.event_timeline = <<>>
    /\ s.bpm_history = <<>>
    /\ s.bpm_timestamps = <<>>
    /\ s.rr_intervals = <<>>
    /\ s.qrs_widths = <<>>
    /\ s.qt_intervals = <<>>

IsEmptySession(s) ==
    /\ BuffersEmpty(s)
    /\ s.event_state = <<>>
    /\ \A e \in EventNames : s.event_counts[e] = 0
    /\ s.current_bpm = 0
    /\ s.last_peak_time = None

(***************************************************************************)
(* C1.  Between resets, every call raises event_counts[name] by 1 when the *)
(* event goes from inactive to active and leaves it unchanged otherwise    *)
(* (already active and still active, or condition false).                  *)
(* set_event adds 1 on every call whose condition is true, so this fails.  *)
(***************************************************************************)
C1_CountsPerTransition ==
    [][ IsAddSampleStep =>
          \A e \in EventNames :
             state'.event_counts[e] =
                state.event_counts[e]
                  + (IF ~Active(state, e) /\ Active(state', e) THEN 1 ELSE 0)
      ]_vars

(***************************************************************************)
(* C2.  After n add_sample calls since construction or the last reset,     *)
(* ecg_data and timestamps hold exactly the last min(n, ecg_maxlen) values *)
(* and timestamps fed, in arrival order, with ecg_maxlen = max(1000,       *)
(* sample_rate * buffer_sec); and no buffer ever holds more entries than   *)
(* its capacity: a call leaves a buffer alone, appends to it, or drops its *)
(* oldest entry and appends.                                               *)
(***************************************************************************)
Capacity(cfg) ==
    LET raw == IF cfg.sample_rate * cfg.buffer_sec > 1000
               THEN cfg.sample_rate * cfg.buffer_sec ELSE 1000
    IN  [ ecg_data |-> raw, timestamps |-> raw, event_timeline |-> raw,
          bpm_history |-> cfg.bpm_maxlen, bpm_timestamps |-> cfg.bpm_maxlen,
          rr_intervals |-> cfg.rr_maxlen, qrs_widths |-> cfg.qrs_maxlen,
          qt_intervals |-> cfg.qt_maxlen ]

BufferNames == DOMAIN Capacity(config)

\* The last k entries of h, projected on component c.
LastOf(h, k, c) == [ i \in 1..k |-> h[Len(h) - k + i][c] ]

Fifo(old, new, cap) ==
    /\ Len(new) <= cap
    /\ \/ new = old
       \/ Len(old) < cap /\ Len(new) = Len(old) + 1
                         /\ SubSeq(new, 1, Len(old)) = old
       \/ Len(old) = cap /\ Len(new) = cap
                         /\ SubSeq(new, 1, cap - 1) = Tail(old)

C2_SlidingWindow ==
    [][ LET k == Min(Len(fed'), Capacity(config).ecg_data)
        IN  /\ state'.ecg_data = LastOf(fed', k, 1)
            /\ state'.timestamps = LastOf(fed', k, 2)
            /\ \A b \in BufferNames : Len(state'[b]) <= Capacity(config)[b]
            /\ IsAddSampleStep =>
                  \A b \in BufferNames : Fifo(state[b], state'[b], Capacity(config)[b])
      ]_vars

\* The raw buffers have wrapped and the beat buffers are full.
C2_Witness ==
    /\ Len(fed) > Capacity(config).ecg_data
    /\ Len(state.ecg_data) = Capacity(config).ecg_data
    /\ state.ecg_data[1] # fed[1][1]
    /\ Len(state.bpm_history) = config.bpm_maxlen
    /\ Len(state.rr_intervals) = config.rr_maxlen

(***************************************************************************)
(* C3.  ecg_data, timestamps and event_timeline have equal length, and so  *)
(* have bpm_history and bpm_timestamps, in every state.                    *)
(***************************************************************************)
C3_AlignedLengths ==
    /\ Len(state.ecg_data) = Len(state.timestamps)
    /\ Len(state.ecg_data) = Len(state.event_timeline)
    /\ Len(state.bpm_history) = Len(state.bpm_timestamps)

C3_Witness ==
    /\ n_resets >= 1
    /\ Len(state.ecg_data) >= 2
    /\ Len(state.bpm_history) >= 1

\* C4: with ecg_loop running against any interleaving of the /health, /data,
\* /report and /reset handlers, a thread that is at a statement reading or
\* writing the session holds RESET_LOCK (so at most one thread is inside a
\* block at a time); whenever the lock is free the session is the result of
\* the completed add_sample and reset calls applied one whole call after the
\* other; and every copy a handler has taken shows the session as it was
\* after the calls completed when the handler took the lock.
C4_ExclusiveAccess ==
    /\ \A th \in Threads : InBlock(th) => RESET_LOCK = th
    /\ RESET_LOCK = Free => state = committed
    /\ \A th \in Workers : \A name \in DOMAIN locals[th].copies :
          locals[th].copies[name] = View(locals[th].seen, name)

\* /report has taken its six copies of a session holding a sample while
\* ecg_loop and a /reset both wait for the lock.
C4_Witness ==
    /\ At("w1", "report", 7)
    /\ RESET_LOCK = "w1"
    /\ DOMAIN locals["w1"].copies =
          { ReportReads[k] : k \in 1..Len(ReportReads) }
    /\ Len(locals["w1"].copies["ecg_data"]) >= 1
    /\ At(Producer, Producer, 0)
    /\ At("w2", "reset", 0)

(***************************************************************************)
(* C5.  A Config with sample_rate <= 0, asystole_sec <= 0 or thresholds    *)
(* not in the order brady < tachy < vtach is rejected at construction, so  *)
(* no add_sample runs against it.  Nothing in ECGConfig or ECGState checks *)
(* the thresholds, so this fails.                                          *)
(***************************************************************************)
C5_InvalidConfigRejected ==
    ValidConfig(config) \/ (~constructed /\ n_calls = 0)

(***************************************************************************)
(* C6.  reset leaves the eight buffers, event_state and event_counts       *)
(* empty, current_bpm = 0, last_peak_time = None and last_signal_time =    *)
(* now, and leaves the Config and the capacities as they were; and a       *)
(* sample fed when no beat has been seen since construction or the last    *)
(* reset adds no RR interval, BPM, QT or QRS value.                        *)
(***************************************************************************)
C6_ResetClears ==
    [][ /\ IsResetStep =>
             /\ IsEmptySession(state')
             /\ state'.last_signal_time = clock'
             /\ state'.maxlen = state.maxlen
             /\ state'.maxlen = PostInitMaxlen(config)
             /\ config' = config
        /\ (IsAddSampleStep /\ Beats(fed) = 0) =>
             /\ state'.rr_intervals = <<>>
             /\ state'.bpm_history = <<>>
             /\ state'.bpm_timestamps = <<>>
             /\ state'.qt_intervals = <<>>
             /\ state'.qrs_widths = <<>>
             /\ state'.current_bpm = 0
      ]_vars

\* A first beat after a reset that followed at least two earlier samples.
C6_Witness ==
    /\ n_resets >= 1
    /\ n_calls >= 3
    /\ Len(fed) = 1
    /\ IsBeat(fed[1][1])
    /\ state.last_peak_time = Some(clock)
    /\ state.last_signal_time > epoch

(***************************************************************************)
(* C7.  A reset that directly follows a reset leaves the session as the    *)
(* first one left it, empty; only last_signal_time moves to the time of    *)
(* the second call.                                                        *)
(***************************************************************************)
C7_ResetIdempotent ==
    [][ (IsResetStep /\ last_op.op = "reset") =>
          /\ IsEmptySession(state')
          /\ state' = [ state EXCEPT !.last_signal_time = clock' ]
      ]_vars

C7_Witness ==
    /\ last_op.op = "reset"
    /\ last_op.prev = "reset"
    /\ n_calls >= 2
    /\ state.last_signal_time = clock
    /\ clock > 0

(***************************************************************************)
(* C8.  Bradycardia is active iff 0 < current_bpm < brady_bpm, Tachycardia *)
(* iff current_bpm > 0 and current_bpm > tachy_bpm, Ventricular            *)
(* Tachycardia iff current_bpm > 0 and current_bpm > vtach_bpm; with the   *)
(* default thresholds 40 bpm gives Bradycardia and 120 bpm gives           *)
(* Tachycardia without Ventricular Tachycardia.                            *)
(***************************************************************************)
C8_RateEvents ==
    AfterAddSample =>
      /\ Active(state, "Bradycardia") <=>
           (0 < state.current_bpm /\ state.current_bpm < config.brady_bpm)
      /\ Active(state, "Tachycardia") <=>
           (0 < state.current_bpm /\ state.current_bpm > config.tachy_bpm)
      /\ Active(state, "Ventricular Tachycardia") <=>
           (0 < state.current_bpm /\ state.current_bpm > config.vtach_bpm)
      /\ (DefaultRates /\ state.current_bpm = 40) =>
           Active(state, "Bradycardia")
      /\ (DefaultRates /\ state.current_bpm = 120) =>
           (Active(state, "Tachycardia") /\ ~Active(state, "Ventricular Tachycardia"))

C8_Witness ==
    /\ AfterAddSample
    /\ DefaultRates
    /\ state.current_bpm = 120
    /\ Active(state, "Tachycardia")
    /\ ~Active(state, "Ventricular Tachycardia")

(***************************************************************************)
(* C9.  After add_sample(value, t), "Asystole / Flatline" is active iff t  *)
(* minus the time of the most recent beat (or of the session start or last *)
(* reset when there was none) exceeds asystole_sec; it is inactive after   *)
(* every sample that is itself a beat.                                     *)
(***************************************************************************)
C9_Asystole ==
    AfterAddSample =>
      /\ Active(state, "Asystole / Flatline") <=>
           (FloatSub(last_op.t, LastBeatTime(fed, epoch), last_op.err)
              > config.asystole_sec)
      /\ IsBeat(last_op.value) => ~Active(state, "Asystole / Flatline")

\* Flatline measured from a beat, not from the session start.
C9_Witness ==
    /\ AfterAddSample
    /\ config.asystole_sec > 0
    /\ Beats(fed) >= 1
    /\ LastBeatTime(fed, epoch) > epoch
    /\ Active(state, "Asystole / Flatline")

(***************************************************************************)
(* C10.  After detect_events(value, now), "Early Repolarization / ST       *)
(* Elevation (possible)" is active iff value > 1.25 * r_threshold and      *)
(* current_bpm < 100, whatever tachy_bpm is and whatever the flag was.     *)
(***************************************************************************)
C10_EarlyRepol ==
    AfterAddSample =>
      ( Active(state, "Early Repolarization / ST Elevation (possible)") <=>
          (4 * last_op.value > 5 * config.r_threshold /\ state.current_bpm < 100) )

\* Active with no BPM established yet.
C10_Witness ==
    /\ AfterAddSample
    /\ state.current_bpm = 0
    /\ Active(state, "Early Repolarization / ST Elevation (possible)")

(***************************************************************************)
(* C11.  Beats fed to a fresh or reset session.                            *)
(***************************************************************************)
\* Time between beats k - 1 and k of the history h.
Spacing(h, k) == h[k][2] - h[k - 1][2]

AllBeats(h) == \A k \in 1..Len(h) : IsBeat(h[k][1])

SteadyBeats(h) ==
    AllBeats(h) /\ \A k \in 2..Len(h) : Spacing(h, k) = 600

AlternatingBeats(h) ==
    AllBeats(h)
    /\ \A k \in 2..Len(h) : Spacing(h, k) = (IF k % 2 = 0 THEN 400 ELSE 800)

\* C11 as stated: n >= 7 beats 0.6 s apart give current_bpm = 100 and leave
\* Irregular Rhythm inactive after every sample; n >= 7 beats spaced 0.4 s
\* and 0.8 s in turn leave Irregular Rhythm active after the last one.
\* Seven beats make six intervals, one too few for line 126, and 60 / rr is
\* below 100 when t - last_peak_time rounds up: this fails.
C11_AsStated ==
    AfterAddSample =>
      /\ (SteadyBeats(fed) /\ Len(fed) >= 7) => state.current_bpm = 100
      /\ SteadyBeats(fed) => ~Active(state, "Irregular Rhythm")
      /\ (AlternatingBeats(fed) /\ Len(fed) >= 7) =>
           Active(state, "Irregular Rhythm")

\* C11, amended: n >= 7 beats 0.6 s apart give current_bpm = 99 or 100 and
\* leave Irregular Rhythm inactive after every sample; beats spaced 0.4 s
\* and 0.8 s in turn leave Irregular Rhythm active once 7 intervals are
\* retained, which is after the 8th beat when the first beat has a nonzero
\* timestamp and after the 9th when it is at 0.0, and inactive before.
C11_SteadyAndAlternating ==
    AfterAddSample =>
      /\ (SteadyBeats(fed) /\ Len(fed) >= 7) => state.current_bpm \in { 99, 100 }
      /\ SteadyBeats(fed) => ~Active(state, "Irregular Rhythm")
      /\ AlternatingBeats(fed) =>
           (Active(state, "Irregular Rhythm") <=>
              (Len(fed) >= 9 \/ (Len(fed) >= 8 /\ fed[1][2] # 0)))

\* Eight beats 0.4 s and 0.8 s apart, the first at a nonzero time, after a
\* reset: seven intervals, Irregular Rhythm active.
C11_Witness ==
    /\ AfterAddSample
    /\ n_resets = 1
    /\ AlternatingBeats(fed)
    /\ Len(fed) = 8
    /\ fed[1][2] # 0
    /\ Len(state.rr_intervals) = 7
    /\ Active(state, "Irregular Rhythm")

(***************************************************************************)
(* C12.  The RR gate.                                                      *)
(***************************************************************************)
\* new is old with one entry pushed at its end (the oldest dropped at capacity).
Pushed(old, new, cap) ==
    Len(new) >= 1 /\ new = DequeAppend(old, cap, new[Len(new)])

RRBuffersUnchanged ==
    /\ state'.rr_intervals = state.rr_intervals
    /\ state'.bpm_history = state.bpm_history
    /\ state'.bpm_timestamps = state.bpm_timestamps
    /\ state'.qt_intervals = state.qt_intervals
    /\ state'.qrs_widths = state.qrs_widths
    /\ state'.current_bpm = state.current_bpm

\* The step add_sample(value, t) with RR = t - (time of the last beat).
RRRecorded(t, rr) ==
    /\ state'.rr_intervals = DequeAppend(state.rr_intervals,
                                         state.maxlen.rr_intervals, rr)
    /\ state'.bpm_history = DequeAppend(state.bpm_history,
                                        state.maxlen.bpm_history, 60000 \div rr)
    /\ state'.bpm_timestamps = DequeAppend(state.bpm_timestamps,
                                           state.maxlen.bpm_timestamps, t)
    /\ Pushed(state.qt_intervals, state'.qt_intervals, state.maxlen.qt_intervals)
    /\ Pushed(state.qrs_widths, state'.qrs_widths, state.maxlen.qrs_widths)
    /\ state'.current_bpm = 60000 \div rr

\* C12: a beat fed when an earlier beat exists since construction or the last
\* reset, at any timestamp including 0.0, and more than 0.25 s after it
\* pushes one entry on rr_intervals (the interval), bpm_history
\* (floor(60 / RR)), bpm_timestamps (t), qt_intervals and qrs_widths and sets
\* current_bpm; any other sample leaves all of them alone.  Line 98 tests
\* last_peak_time for truth, and 0.0 is false, so a beat that follows a beat
\* at 0.0 records nothing: this fails.
C12_RRGate ==
    [][ IsAddSampleStep =>
          LET value == last_op'.value
              t == last_op'.t
              rr == FloatSub(t, LastBeatTime(fed, epoch), last_op'.err)
          IN  IF IsBeat(value) /\ Beats(fed) >= 1 /\ rr > 250
              THEN RRRecorded(t, rr)
              ELSE RRBuffersUnchanged
      ]_vars

(***************************************************************************)
(* C13.  add_sample(value, t) with value > r_threshold leaves              *)
(* last_peak_time = last_signal_time = t whether or not the RR gate        *)
(* passed; with value <= r_threshold it leaves both as they were.  So      *)
(* last_peak_time, when it is not None, equals last_signal_time.           *)
(***************************************************************************)
PeakIsSignal(s) ==
    s.last_peak_time # None => s.last_peak_time = Some(s.last_signal_time)

C13_PeakAndSignalTime ==
    [][ /\ PeakIsSignal(state) /\ PeakIsSignal(state')
        /\ IsAddSampleStep =>
             IF IsBeat(last_op'.value)
             THEN /\ state'.last_peak_time = Some(last_op'.t)
                  /\ state'.last_signal_time = last_op'.t
             ELSE /\ state'.last_peak_time = state.last_peak_time
                  /\ state'.last_signal_time = state.last_signal_time
      ]_vars

\* A second beat at the timestamp of the first (the gate fails), after a
\* sample that was no beat.
C13_Witness ==
    /\ AfterAddSample
    /\ Len(fed) = 3
    /\ ~IsBeat(fed[1][1])
    /\ IsBeat(fed[2][1]) /\ IsBeat(fed[3][1])
    /\ fed[3][2] = fed[2][2]
    /\ fed[3][2] > fed[1][2]
    /\ state.rr_intervals = <<>>
    /\ state.last_peak_time = Some(clock)
    /\ state.last_signal_time = clock

(***************************************************************************)
(* C14.  After every add_sample, "Myocarditis (possible)" is active iff at *)
(* least two of Tachycardia, Irregular Rhythm and Early Repolarization /   *)
(* ST Elevation (possible) are active in the event state that the same     *)
(* call leaves.                                                            *)
(***************************************************************************)
MyocarditisScore(s) ==
    Cardinality({ e \in { "Tachycardia", "Irregular Rhythm",
                          "Early Repolarization / ST Elevation (possible)" } :
                  Active(s, e) })

C14_MyocarditisComposite ==
    AfterAddSample =>
      (Active(state, "Myocarditis (possible)") <=> MyocarditisScore(state) >= 2)

\* The call that first activates Irregular Rhythm (its 7th interval), on a
\* beat at 149 or 150 bpm that follows one at 74 or 75 bpm: the flags of the
\* call before score 1 (Early Repolarization), those of this call 2.
C14_Witness ==
    /\ AfterAddSample
    /\ AlternatingBeats(fed)
    /\ Len(state.rr_intervals) = 7
    /\ state.event_counts["Irregular Rhythm"] = 1
    /\ Active(state, "Tachycardia")
    /\ ~Active(state, "Early Repolarization / ST Elevation (possible)")
    /\ state.event_counts["Early Repolarization / ST Elevation (possible)"] >= 1
    /\ state.event_counts["Myocarditis (possible)"] = 1
    /\ Active(state, "Myocarditis (possible)")

(***************************************************************************)
(* C15.  After every add_sample the events of lines 126-143 follow the     *)
(* retained windows alone: Irregular Rhythm, Sinus Node Dysfunction and    *)
(* First-Degree AV Block (possible) are active iff at least 7 RR intervals *)
(* are retained and their condition holds on the mean and variance of      *)
(* rr_intervals; Bundle Branch Block, Long QT and Short QT iff at least 6  *)
(* QRS or QT values are retained and their condition holds on the mean.    *)
(* With n entries of sum S and sum of squares Q, the mean is S / n and the *)
(* variance (n * Q - S * S) / (n * n).                                     *)
(***************************************************************************)
VarianceAbove(q, x) == Len(q) * SumSq(q) - Sum(q) * Sum(q) > x * Len(q) * Len(q)

VarianceBelow(q, x) == Len(q) * SumSq(q) - Sum(q) * Sum(q) < x * Len(q) * Len(q)

MeanAbove(q, x) == Sum(q) > x * Len(q)

MeanBelow(q, x) == Sum(q) < x * Len(q)

C15_WindowEvents ==
    AfterAddSample =>
      LET rr == state.rr_intervals
          qrs == state.qrs_widths
          qt == state.qt_intervals
      IN  /\ Active(state, "Irregular Rhythm") <=>
               (Len(rr) >= 7 /\ VarianceAbove(rr, 20000))
          /\ Active(state, "Sinus Node Dysfunction") <=>
               (Len(rr) >= 7 /\ VarianceAbove(rr, 30000) /\ MeanAbove(rr, 1200))
          /\ Active(state, "First-Degree AV Block (possible)") <=>
               (Len(rr) >= 7 /\ MeanAbove(rr, 1000) /\ VarianceBelow(rr, 5000))
          /\ Active(state, "Bundle Branch Block (possible)") <=>
               (Len(qrs) >= 6 /\ MeanAbove(qrs, 14000))
          /\ Active(state, "Long QT (possible)") <=>
               (Len(qt) >= 6 /\ MeanAbove(qt, 48000))
          /\ Active(state, "Short QT (possible)") <=>
               (Len(qt) >= 6 /\ MeanBelow(qt, 32000))

\* Short QT and Bundle Branch Block were active and are not any more, and
\* Irregular Rhythm has become active: the window moved on.
C15_Witness ==
    /\ AfterAddSample
    /\ Len(state.qt_intervals) = state.maxlen.qt_intervals
    /\ state.event_counts["Short QT (possible)"] >= 1
    /\ ~Active(state, "Short QT (possible)")
    /\ state.event_counts["Bundle Branch Block (possible)"] >= 1
    /\ ~Active(state, "Bundle Branch Block (possible)")
    /\ Active(state, "Irregular Rhythm")

(***************************************************************************)
(* C16.  The timeline label.                                               *)
(***************************************************************************)
\* The orders in which the names of q can be written.
Orders(q) ==
    { p \in [ 1..Len(q) -> { q[i] : i \in 1..Len(q) } ] :
        \A i, j \in 1..Len(q) : p[i] = p[j] => i = j }

\* label joins exactly the names of q, in some order.
SameNames(label, q) ==
    /\ Len(label) = Len(Join(q))
    /\ \E p \in Orders(q) : label = Join(p)

\* C16: every add_sample pushes one entry on event_timeline, the names of the
\* cardiac events active after the call joined by commas, and the entry
\* depends on the set of active events only: an earlier entry of the timeline
\* written for the same set of events is the same label.  event_state is a
\* dict, so the names come out in the order in which the events last became
\* active, and the same set is written in different orders: this fails.
C16_LabelOfActiveSet ==
    AfterAddSample =>
      LET timeline == state.event_timeline
          n == Len(timeline)
          flags == active_cardiac_flags(state)
      IN  /\ n = Min(Len(fed), state.maxlen.event_timeline)
          /\ timeline[n] = Join(flags)
          /\ { flags[i] : i \in 1..Len(flags) } =
               { e \in CARDIAC_EVENTS : Active(state, e) }
          /\ \A i \in 1..n : SameNames(timeline[i], flags) => timeline[i] = timeline[n]

(***************************************************************************)
(* C17.  No thread reads the sample or sleeps while it holds RESET_LOCK:   *)
(* in ecg_loop the acquisition of the sample and the sleep between samples *)
(* are outside the block, which holds add_sample alone.  The sleep is      *)
(* outside, but lines 72-76 read the clock and the sample inside the       *)
(* block: this fails.                                                      *)
(***************************************************************************)
C17_NoIOUnderLock ==
    \A th \in Threads : (Acquiring(th) \/ Sleeping(th)) => RESET_LOCK # th

(***************************************************************************)
(* C18.  In every state of a session with bpm_maxlen >= 1, current_bpm is  *)
(* 0 when bpm_history is empty and its last entry otherwise; every         *)
(* retained RR interval exceeds 0.25 s, and current_bpm and every entry of *)
(* bpm_history lie in 0..239.                                              *)
(***************************************************************************)
C18_BpmIsLastOfHistory ==
    (constructed /\ config.bpm_maxlen >= 1) =>
      LET history == state.bpm_history
      IN  /\ state.current_bpm =
               (IF history = <<>> THEN 0 ELSE history[Len(history)])
          /\ \A i \in 1..Len(state.rr_intervals) : state.rr_intervals[i] > 250
          /\ \A i \in 1..Len(history) : history[i] \in 0..239
          /\ state.current_bpm \in 0..239

\* A beat 0.25 s after the one before whose interval rounded up and passed
\* the gate: 239 bpm, after a slower one.
C18_Witness ==
    /\ AfterAddSample
    /\ Len(state.bpm_history) = 2
    /\ state.bpm_history[1] < 239
    /\ state.bpm_history[2] = 239
    /\ state.current_bpm = 239
    /\ state.rr_intervals[Len(state.rr_intervals)] = 251

(***************************************************************************)
(* C19.  With the default thresholds (50 < 100 < 150), after every         *)
(* add_sample Ventricular Tachycardia active implies Tachycardia active,   *)
(* and Bradycardia and Tachycardia are not active together.                *)
(***************************************************************************)
C19_RateEventsOrdered ==
    (AfterAddSample /\ DefaultRates) =>
      /\ Active(state, "Ventricular Tachycardia") => Active(state, "Tachycardia")
      /\ ~(Active(state, "Bradycardia") /\ Active(state, "Tachycardia"))

\* 239 bpm after 40 bpm: Ventricular Tachycardia with Tachycardia, where
\* Bradycardia was active one beat earlier.
C19_Witness ==
    /\ AfterAddSample
    /\ DefaultRates
    /\ state.bpm_history = << 40, 239 >>
    /\ Active(state, "Ventricular Tachycardia")
    /\ Active(state, "Tachycardia")
    /\ ~Active(state, "Bradycardia")
    /\ state.event_counts["Bradycardia"] = 1

(***************************************************************************)
(* C20.  With the default tachy_bpm = 100, Tachycardia and Early           *)
(* Repolarization / ST Elevation (possible) are never active together      *)
(* after an add_sample, so at most two of the three events of the          *)
(* composite are active and "Myocarditis (possible)" active implies        *)
(* "Irregular Rhythm" active.                                              *)
(***************************************************************************)
C20_TachyExcludesEarlyRepol ==
    (AfterAddSample /\ config.tachy_bpm = 100) =>
      /\ ~(Active(state, "Tachycardia")
           /\ Active(state, "Early Repolarization / ST Elevation (possible)"))
      /\ MyocarditisScore(state) <= 2
      /\ Active(state, "Myocarditis (possible)") => Active(state, "Irregular Rhythm")

\* Myocarditis from Irregular Rhythm with Early Repolarization, on a high
\* beat below 100 bpm, in a session that has had Tachycardia and Myocarditis
\* before.
C20_Witness ==
    /\ AfterAddSample
    /\ config.tachy_bpm = 100
    /\ Active(state, "Myocarditis (possible)")
    /\ Active(state, "Irregular Rhythm")
    /\ Active(state, "Early Repolarization / ST Elevation (possible)")
    /\ ~Active(state, "Tachycardia")
    /\ state.event_counts["Tachycardia"] >= 1
    /\ state.event_counts["Myocarditis (possible)"] >= 2

====
